---- MODULE Spec2Model ----
(***************************************************************************)
(* Model of src/app.js: an HTTP server with three fixed routes and a 404   *)
(* fallback, a SIGTERM handler that closes the server and exits from the   *)
(* close callback, and a self-test mode that chains two HTTP GETs against  *)
(* the server itself.                                                      *)
(*                                                                         *)
(* A URL is a sequence of tokens of Alphabet ("/", path words and "?"), so  *)
(* that url.parse can be modelled by what it does to the text.             *)
(* A JSON value is a record [t, v] with its JavaScript type in t.          *)
(* The node runtime is modelled where the program depends on it:           *)
(*   - server.listen creates the listening handle synchronously and the    *)
(*     'listening' callback runs before any I/O event or signal;           *)
(*   - server.close(cb) closes the handle, registers cb for 'close', and   *)
(*     'close' is emitted once the handle is closed and no connection is   *)
(*     open;                                                               *)
(*   - process.exit ends the process synchronously;                        *)
(*   - an 'error' event with no listener is thrown, is uncaught, prints    *)
(*     the error and ends the process with status 1.                       *)
(***************************************************************************)
EXTENDS Integers, Sequences, FiniteSets, TLC

(* ------------------------------ bounds -------------------------------- *)
MaxUrlLen == 3
MaxConns == 2
MaxSigterms == 2

(* ----------------------------- vocabulary ----------------------------- *)
Methods == {"GET", "POST", "PUT", "DELETE", "PATCH"}
Alphabet == {"/", "health", "info", "Health", "?"}
Urls == {u \in UNION {[1..n -> Alphabet] : n \in 1..MaxUrlLen} : u[1] = "/"}
SampleMethods == {"GET", "POST"}
SampleUrls == {<<"/">>, <<"/", "health">>, <<"/", "Health">>}
ExtConns == 1..MaxConns
SelfConn == 0
NotExited == -1

Str(s) == [t |-> "str", v |-> s]
Num(n) == [t |-> "num", v |-> n]
Text(seq) == [t |-> "text", v |-> seq]
Undefined == [t |-> "undefined", v |-> ""]

environment == "development"

VARIABLES mode, pc, handle, connections, closeCbs, sigterms,
          exitCode, exitVia, out, req, clientRes, netFailure, lastReq, lastRes

vars == <<mode, pc, handle, connections, closeCbs, sigterms,
          exitCode, exitVia, out, req, clientRes, netFailure, lastReq, lastRes>>

(* ------------------------- url.parse(...).pathname --------------------- *)
RECURSIVE FirstDelim(_, _)
FirstDelim(u, i) ==
  IF i > Len(u) THEN Len(u) + 1
  ELSE IF u[i] \in {"?", "#"} THEN i
  ELSE FirstDelim(u, i + 1)

(* routing on req.url itself *)
UrlParseWholeUrl(u) == u

UrlParsePathname(u) == SubSeq(u, 1, FirstDelim(u, 1) - 1)

(* --------------------------- the response object ----------------------- *)
NoBody == [type |-> "none"]
NoWire == [status |-> 0, headers |-> {}, body |-> NoBody]
NewResponse == [statusCode |-> 200, headers |-> {}, headersSent |-> FALSE, sent |-> NoWire]

SetHeader(res, k, v) ==
  IF res.headersSent THEN res
  ELSE [res EXCEPT !.headers = {p \in @ : p[1] # k} \cup {<<k, v>>}]

SetStatus(res, code) ==
  IF res.headersSent THEN res ELSE [res EXCEPT !.statusCode = code]

End(res, body) ==
  IF res.headersSent THEN res
  ELSE [res EXCEPT !.headersSent = TRUE,
                   !.sent = [status |-> res.statusCode, headers |-> res.headers, body |-> body]]

Json(obj) == [type |-> "json", obj |-> obj]

(* ------------------------------ the handler ---------------------------- *)
SetCors(res) ==
  SetHeader(SetHeader(SetHeader(res,
    "Access-Control-Allow-Origin", "*"),
    "Access-Control-Allow-Methods", "GET, POST, PUT, DELETE"),
    "Access-Control-Allow-Headers", "Content-Type")

RootBody == [type |-> "html", environment |-> environment, timestamp |-> "iso"]

HealthBody ==
  Json([status |-> Str("healthy"),
        timestamp |-> Str("iso"),
        uptime |-> Num("seconds"),
        environment |-> Str(environment),
        version |-> Str("1.0.0"),
        node_version |-> Str("v")])

InfoBody ==
  Json([platform |-> Str("linux"),
        architecture |-> Str("x64"),
        node_version |-> Str("v"),
        memory_usage |-> [t |-> "object", v |-> "rss"],
        environment |-> Str(environment),
        pid |-> Num("1")])

NotFoundBody(pathname) ==
  Json([error |-> Str("Not Found"),
        message |-> Text(<<"Route ">> \o pathname \o <<" not found">>),
        timestamp |-> Str("iso")])

(* a router whose default case answers like the root page *)
RouteNoDefault(res, pathname) ==
  CASE pathname = <<"/", "health">> ->
         End(SetHeader(SetStatus(res, 200), "Content-Type", "application/json"), HealthBody)
    [] pathname = <<"/", "info">> ->
         End(SetHeader(SetStatus(res, 200), "Content-Type", "application/json"), InfoBody)
    [] OTHER ->
         End(SetHeader(SetStatus(res, 200), "Content-Type", "text/html"), RootBody)

Route(res, pathname) ==
  CASE pathname = <<"/">> ->
         End(SetHeader(SetStatus(res, 200), "Content-Type", "text/html"), RootBody)
    [] pathname = <<"/", "health">> ->
         End(SetHeader(SetStatus(res, 200), "Content-Type", "application/json"), HealthBody)
    [] pathname = <<"/", "info">> ->
         End(SetHeader(SetStatus(res, 200), "Content-Type", "application/json"), InfoBody)
    [] OTHER ->
         End(SetHeader(SetStatus(res, 404), "Content-Type", "application/json"),
             NotFoundBody(pathname))

(* a handler that answers only GET *)
HandlerGetOnly(method, u) ==
  IF method = "GET" THEN Route(SetCors(NewResponse), UrlParsePathname(u))
  ELSE End(SetStatus(SetCors(NewResponse), 405), NoBody)

(* a handler that sets the CORS headers after the response has ended *)
HandlerCorsLate(method, u) == SetCors(Route(NewResponse, UrlParsePathname(u)))

Handler(method, u) == Route(SetCors(NewResponse), UrlParsePathname(u))

(* ------------------------------ the process ---------------------------- *)
Running == exitCode = NotExited
Listening == pc \notin {"start", "bound"}
NoReq == [method |-> "none", url |-> <<>>]
NoRequests == [health |-> "none", info |-> "none"]
InFlight == \E st \in DOMAIN req : req[st] = "inflight"

Init ==
  /\ mode \in {"normal", "test"}
  /\ pc = "start"
  /\ handle = FALSE
  /\ connections = {}
  /\ closeCbs = 0
  /\ sigterms = 0
  /\ exitCode = NotExited
  /\ exitVia = "none"
  /\ out = {}
  /\ req = NoRequests
  /\ clientRes = NoWire
  /\ netFailure = {}
  /\ lastReq = NoReq
  /\ lastRes = NoWire

Exit(code, via) == exitCode' = code /\ exitVia' = via

(* lines 103-109: normal start-up, server.listen(port) *)
StartNormal ==
  /\ Running /\ mode = "normal" /\ pc = "start"
  /\ handle' = TRUE
  /\ pc' = "bound"
  /\ UNCHANGED <<mode, connections, closeCbs, sigterms, exitCode, exitVia, out, req,
                 clientRes, netFailure, lastReq, lastRes>>

(* lines 104-108: the 'listening' callback of normal mode *)
ListeningCb ==
  /\ Running /\ mode = "normal" /\ pc = "bound"
  /\ out' = out \cup {"Server running"}
  /\ pc' = "serving"
  /\ UNCHANGED <<mode, handle, connections, closeCbs, sigterms, exitCode, exitVia, req,
                 clientRes, netFailure, lastReq, lastRes>>

(* the server accepts a connection of an outside client *)
Connect(c) ==
  /\ Running /\ Listening /\ handle
  /\ c \in ExtConns \ connections
  /\ connections' = connections \cup {c}
  /\ UNCHANGED <<mode, pc, handle, closeCbs, sigterms, exitCode, exitVia, out, req,
                 clientRes, netFailure, lastReq, lastRes>>

(* lines 7-91: a request of an outside client arrives on an open connection *)
HandleRequest(c, method, u) ==
  /\ Running /\ Listening
  /\ c \in ExtConns \cap connections
  /\ lastReq' = [method |-> method, url |-> u]
  /\ lastRes' = Handler(method, u).sent
  /\ out' = out \cup {"request"}
  /\ UNCHANGED <<mode, pc, handle, connections, closeCbs, sigterms, exitCode, exitVia, req,
                 clientRes, netFailure>>

(* lines 96-99: 'close' is emitted when the handle is closed and the last *)
(* connection has gone; the callback of the SIGTERM handler then exits    *)
CloseEmitted(h, conns, cbs) == ~h /\ conns = {} /\ cbs > 0

(* a close callback that is never called *)
CloseConnNoCallback(c) ==
  /\ Running
  /\ c \in connections
  /\ c = SelfConn => ~InFlight
  /\ connections' = connections \ {c}
  /\ UNCHANGED <<mode, pc, handle, closeCbs, sigterms, exitCode, exitVia, out, req,
                 clientRes, netFailure, lastReq, lastRes>>

(* a connection ends; the self-test's own connection only between requests *)
CloseConn(c) ==
  /\ Running
  /\ c \in connections
  /\ c = SelfConn => ~InFlight
  /\ connections' = connections \ {c}
  /\ IF CloseEmitted(handle, connections', closeCbs)
       THEN out' = out \cup {"Server closed"} /\ Exit(0, "shutdown")
       ELSE UNCHANGED <<out, exitCode, exitVia>>
  /\ UNCHANGED <<mode, pc, handle, closeCbs, sigterms, req, clientRes, netFailure,
                 lastReq, lastRes>>

(* a SIGTERM handler that calls process.exit(0) next to server.close() *)
SigtermExitAtOnce ==
  /\ Running /\ Listening
  /\ sigterms < MaxSigterms
  /\ sigterms' = sigterms + 1
  /\ handle' = FALSE
  /\ closeCbs' = closeCbs + 1
  /\ out' = out \cup {"Received SIGTERM", "Server closed"}
  /\ Exit(0, "shutdown")
  /\ UNCHANGED <<mode, pc, connections, req, clientRes, netFailure, lastReq, lastRes>>

(* lines 94-100: process.on('SIGTERM') *)
Sigterm ==
  /\ Running /\ Listening
  /\ sigterms < MaxSigterms
  /\ sigterms' = sigterms + 1
  /\ handle' = FALSE
  /\ closeCbs' = closeCbs + 1
  /\ IF CloseEmitted(handle', connections, closeCbs')
       THEN out' = out \cup {"Received SIGTERM", "Server closed"} /\ Exit(0, "shutdown")
       ELSE out' = out \cup {"Received SIGTERM"} /\ UNCHANGED <<exitCode, exitVia>>
  /\ UNCHANGED <<mode, pc, connections, req, clientRes, netFailure, lastReq, lastRes>>

(* ------------------------------- self-test ----------------------------- *)
JsonGet(obj, k) == IF k \in DOMAIN obj THEN obj[k] ELSE Undefined

Truthy(x) ==
  CASE x.t = "undefined" -> FALSE
    [] x.t = "str" -> x.v # ""
    [] x.t = "num" -> x.v \notin {"0", "NaN"}
    [] OTHER -> TRUE

(* line 118 *)
MathAssertion == 2 + 2 = 4

(* lines 135-139: JSON.parse and the four assertions on /health *)
HealthAssertions(res) ==
  /\ res.body.type = "json"
  /\ res.status = 200
  /\ JsonGet(res.body.obj, "status") = Str("healthy")
  /\ Truthy(JsonGet(res.body.obj, "timestamp"))
  /\ JsonGet(res.body.obj, "uptime").t = "num"

(* lines 149-151: JSON.parse and the two assertions on /info *)
InfoAssertions(res) ==
  /\ res.body.type = "json"
  /\ res.status = 200
  /\ Truthy(JsonGet(res.body.obj, "platform"))

(* lines 112-126: the synchronous part of the self-test *)
SelfTestMain ==
  /\ Running /\ mode = "test" /\ pc = "start"
  /\ IF MathAssertion
       THEN /\ out' = out \cup {"Running tests", "Math test passed"}
            /\ handle' = TRUE
            /\ pc' = "bound"
            /\ UNCHANGED <<exitCode, exitVia>>
       ELSE /\ out' = out \cup {"Running tests", "Math test failed"}
            /\ Exit(1, "test")
            /\ UNCHANGED <<handle, pc>>
  /\ UNCHANGED <<mode, connections, closeCbs, sigterms, req, clientRes, netFailure,
                 lastReq, lastRes>>

(* a 'listening' callback that issues both GETs at once *)
TestListeningCbBoth ==
  /\ Running /\ mode = "test" /\ pc = "bound"
  /\ pc' = "testing"
  /\ req' = [health |-> "inflight", info |-> "inflight"]
  /\ UNCHANGED <<mode, handle, connections, closeCbs, sigterms, exitCode, exitVia, out,
                 clientRes, netFailure, lastReq, lastRes>>

(* lines 126-130: the 'listening' callback of the self-test issues GET /health *)
TestListeningCb ==
  /\ Running /\ mode = "test" /\ pc = "bound"
  /\ pc' = "testing"
  /\ req' = [req EXCEPT !.health = "inflight"]
  /\ UNCHANGED <<mode, handle, connections, closeCbs, sigterms, exitCode, exitVia, out,
                 clientRes, netFailure, lastReq, lastRes>>

(* the request of the self-test reaches the server: a connection is accepted *)
TestConnect ==
  /\ Running /\ InFlight
  /\ handle
  /\ SelfConn \notin connections
  /\ connections' = connections \cup {SelfConn}
  /\ UNCHANGED <<mode, pc, handle, closeCbs, sigterms, exitCode, exitVia, out, req,
                 clientRes, netFailure, lastReq, lastRes>>

(* lines 128 and 143: testUrl and infoUrl *)
StageUrl(stage) == IF stage = "health" THEN <<"/", "health">> ELSE <<"/", "info">>

(* lines 7-91 and 130-132 / 144-146: the server answers the self-test's GET *)
ServeSelf(stage) ==
  /\ Running /\ req[stage] = "inflight"
  /\ SelfConn \in connections
  /\ lastReq' = [method |-> "GET", url |-> StageUrl(stage)]
  /\ lastRes' = Handler("GET", StageUrl(stage)).sent
  /\ clientRes' = lastRes'
  /\ out' = out \cup {"request"}
  /\ req' = [req EXCEPT ![stage] = "responded"]
  /\ UNCHANGED <<mode, pc, handle, connections, closeCbs, sigterms, exitCode, exitVia,
                 netFailure>>

(* responses of a listener other than this server (localhost may resolve to *)
(* an address this server is not bound to)                                 *)
ForeignIds == 1..7
HealthLike(st, ts, up) == Json([status |-> st, timestamp |-> ts, uptime |-> up])
ForeignResponse(i) ==
  CASE i = 1 -> [status |-> 200, headers |-> {}, body |-> [type |-> "text"]]
    [] i = 2 -> [status |-> 500, headers |-> {},
                 body |-> HealthLike(Str("healthy"), Str("iso"), Num("1"))]
    [] i = 3 -> [status |-> 200, headers |-> {},
                 body |-> HealthLike(Str("degraded"), Str("iso"), Num("1"))]
    [] i = 4 -> [status |-> 200, headers |-> {},
                 body |-> Json([status |-> Str("healthy"), uptime |-> Num("1")])]
    [] i = 5 -> [status |-> 200, headers |-> {},
                 body |-> HealthLike(Str("healthy"), Str("iso"), Str("1"))]
    [] i = 6 -> [status |-> 200, headers |-> {},
                 body |-> HealthLike(Str("healthy"), Str("iso"), Num("0"))]
    [] OTHER -> [status |-> 200, headers |-> {},
                 body |-> Json([status |-> Str("healthy"), timestamp |-> Str("iso"),
                                uptime |-> Num("1"), platform |-> Str("linux")])]

(* lines 130-132 / 144-146: the response of the GET is received from elsewhere *)
TestForeignResponse(stage, i) ==
  /\ Running /\ req[stage] = "inflight"
  /\ SelfConn \notin connections
  /\ clientRes' = ForeignResponse(i)
  /\ req' = [req EXCEPT ![stage] = "responded"]
  /\ UNCHANGED <<mode, pc, handle, connections, closeCbs, sigterms, exitCode, exitVia, out,
                 netFailure, lastReq, lastRes>>

(* a /health 'end' handler that goes on to /info after a failed assertion *)
TestHealthEndGoesOn ==
  /\ Running /\ req.health = "responded"
  /\ IF HealthAssertions(clientRes)
       THEN out' = out \cup {"Health endpoint test passed"}
       ELSE out' = out \cup {"Health endpoint test failed"}
  /\ req' = [health |-> "ended", info |-> "inflight"]
  /\ UNCHANGED <<mode, pc, handle, exitCode, exitVia, connections, closeCbs, sigterms,
                 clientRes, netFailure, lastReq, lastRes>>

(* lines 133-143 and 163-167: 'end' of the /health response *)
TestHealthEnd ==
  /\ Running /\ req.health = "responded"
  /\ IF HealthAssertions(clientRes)
       THEN /\ out' = out \cup {"Health endpoint test passed"}
            /\ req' = [health |-> "ended", info |-> "inflight"]
            /\ UNCHANGED <<handle, exitCode, exitVia>>
       ELSE /\ out' = out \cup {"Health endpoint test failed"}
            /\ req' = [req EXCEPT !.health = "ended"]
            /\ handle' = FALSE
            /\ Exit(1, "test")
  /\ UNCHANGED <<mode, pc, connections, closeCbs, sigterms, clientRes, netFailure,
                 lastReq, lastRes>>

(* an /info 'end' handler that reports a failed assertion and stays alive *)
TestInfoEndStaysAlive ==
  /\ Running /\ req.info = "responded"
  /\ req' = [req EXCEPT !.info = "ended"]
  /\ IF InfoAssertions(clientRes)
       THEN /\ out' = out \cup {"Info endpoint test passed", "All tests passed"}
            /\ handle' = FALSE
            /\ Exit(0, "test")
       ELSE /\ out' = out \cup {"Info endpoint test failed"}
            /\ UNCHANGED <<handle, exitCode, exitVia>>
  /\ UNCHANGED <<mode, pc, connections, closeCbs, sigterms, clientRes, netFailure,
                 lastReq, lastRes>>

(* lines 147-160: 'end' of the /info response *)
TestInfoEnd ==
  /\ Running /\ req.info = "responded"
  /\ req' = [req EXCEPT !.info = "ended"]
  /\ handle' = FALSE
  /\ IF InfoAssertions(clientRes)
       THEN /\ out' = out \cup {"Info endpoint test passed", "All tests passed"}
            /\ Exit(0, "test")
       ELSE /\ out' = out \cup {"Info endpoint test failed"}
            /\ Exit(1, "test")
  /\ UNCHANGED <<mode, pc, connections, closeCbs, sigterms, clientRes, netFailure,
                 lastReq, lastRes>>

(* lines 169-173: 'error' of the /health request *)
TestHealthError ==
  /\ Running /\ req.health = "inflight"
  /\ req' = [req EXCEPT !.health = "error"]
  /\ netFailure' = netFailure \cup {"health"}
  /\ out' = out \cup {"HTTP request failed"}
  /\ handle' = FALSE
  /\ Exit(1, "requestError")
  /\ UNCHANGED <<mode, pc, connections, closeCbs, sigterms, clientRes, lastReq, lastRes>>

(* an 'error' of the /info request that nothing reports *)
TestInfoErrorSwallowed ==
  /\ Running /\ req.info = "inflight"
  /\ req' = [req EXCEPT !.info = "error"]
  /\ netFailure' = netFailure \cup {"info"}
  /\ UNCHANGED <<mode, pc, handle, connections, closeCbs, sigterms, exitCode, exitVia, out,
                 clientRes, lastReq, lastRes>>

(* lines 144-162: 'error' of the /info request, which has no listener: the *)
(* event is thrown, nothing catches it, the runtime prints it and exits 1  *)
TestInfoError ==
  /\ Running /\ req.info = "inflight"
  /\ req' = [req EXCEPT !.info = "error"]
  /\ netFailure' = netFailure \cup {"info"}
  /\ out' = out \cup {"Uncaught error"}
  /\ Exit(1, "uncaught")
  /\ UNCHANGED <<mode, pc, handle, connections, closeCbs, sigterms, clientRes,
                 lastReq, lastRes>>

(* ---------------------------- specifications --------------------------- *)
Stages == {"health", "info"}

ServerStep ==
  \/ \E c \in ExtConns : Connect(c)
  \/ \E c \in ExtConns, method \in SampleMethods, u \in SampleUrls :
       HandleRequest(c, method, u)
  \/ \E c \in ExtConns \cup {SelfConn} : CloseConn(c)

TestStep ==
  \/ SelfTestMain
  \/ TestListeningCb
  \/ TestConnect
  \/ \E stage \in Stages : ServeSelf(stage)
  \/ \E stage \in Stages, i \in ForeignIds : TestForeignResponse(stage, i)
  \/ TestHealthEnd
  \/ TestInfoEnd
  \/ TestHealthError
  \/ TestInfoError

Next ==
  \/ StartNormal
  \/ ListeningCb
  \/ ServerStep
  \/ Sigterm
  \/ TestStep

Spec == Init /\ [][Next]_vars

(* callbacks that are due run, open connections end, and a request of the *)
(* self-test is answered or fails                                         *)
Fairness ==
  /\ WF_vars(StartNormal)
  /\ WF_vars(ListeningCb)
  /\ \A c \in ExtConns \cup {SelfConn} : WF_vars(CloseConn(c))
  /\ WF_vars(TestStep)

LiveSpec == Spec /\ Fairness

(* the self-test with no SIGTERM delivered *)
SelfTestInit == Init /\ mode = "test"
SelfTestNext == ServerStep \/ TestStep
SelfTestSpec == SelfTestInit /\ [][SelfTestNext]_vars /\ Fairness

(* the router under every method and URL of the bounded sets, normal mode *)
RouterInit == Init /\ mode = "normal"

RouterNext ==
  \/ StartNormal
  \/ ListeningCb
  \/ \E c \in ExtConns : Connect(c)
  \/ \E c \in ExtConns, method \in Methods, u \in Urls : HandleRequest(c, method, u)
  \/ \E c \in ExtConns : CloseConn(c)

RouterSpec == RouterInit /\ [][RouterNext]_vars

(* ------------------------------- properties ---------------------------- *)
HeaderValues(res, k) == {p[2] : p \in {q \in res.headers : q[1] = k}}
Contains(text, part) ==
  \E i \in 0..(Len(text) - Len(part)) : SubSeq(text, i + 1, i + Len(part)) = part
Served == lastReq.method # "none"
LastPath == UrlParsePathname(lastReq.url)
MatchedPaths == {<<"/">>, <<"/", "health">>, <<"/", "info">>}

(* C1: a request whose pathname is none of "/", "/health", "/info" is     *)
(* answered 404 with content type application/json, error "Not Found" and *)
(* a message that contains the pathname, and the process keeps running.   *)
C1_NotFound ==
  (Served /\ LastPath \notin MatchedPaths) =>
    /\ lastRes.status = 404
    /\ HeaderValues(lastRes, "Content-Type") = {"application/json"}
    /\ lastRes.body.type = "json"
    /\ JsonGet(lastRes.body.obj, "error") = Str("Not Found")
    /\ JsonGet(lastRes.body.obj, "message").t = "text"
    /\ Contains(JsonGet(lastRes.body.obj, "message").v, LastPath)
    /\ Running

C1_Witness ==
  /\ lastReq.method = "PUT"
  /\ lastReq.url = <<"/", "health", "/">>
  /\ lastRes.status = 404

(* C2: under every method "/" is answered 200 text/html and "/health" and *)
(* "/info" 200 application/json; the response is the one GET receives for *)
(* the same URL, and /health carries status "healthy".                    *)
C2_MethodAgnostic ==
  Served =>
    /\ LastPath = <<"/">> =>
         /\ lastRes.status = 200
         /\ HeaderValues(lastRes, "Content-Type") = {"text/html"}
    /\ LastPath \in {<<"/", "health">>, <<"/", "info">>} =>
         /\ lastRes.status = 200
         /\ HeaderValues(lastRes, "Content-Type") = {"application/json"}
    /\ LastPath = <<"/", "health">> =>
         /\ lastRes.body.type = "json"
         /\ JsonGet(lastRes.body.obj, "status") = Str("healthy")
    /\ \A m \in Methods : lastRes = Handler(m, lastReq.url).sent

C2_Witness ==
  /\ lastReq.method = "DELETE"
  /\ LastPath = <<"/", "health">>
  /\ lastRes.status = 200

(* C3: every response the server has sent, the 404 included, carries      *)
(* Access-Control-Allow-Origin "*", the allowed methods and the allowed   *)
(* header: they are set before the response is ended.                     *)
C3_Cors ==
  Served =>
    /\ HeaderValues(lastRes, "Access-Control-Allow-Origin") = {"*"}
    /\ HeaderValues(lastRes, "Access-Control-Allow-Methods") = {"GET, POST, PUT, DELETE"}
    /\ HeaderValues(lastRes, "Access-Control-Allow-Headers") = {"Content-Type"}

C3_Witness ==
  /\ Served
  /\ lastRes.status = 404
  /\ Cardinality(connections) > 1
  /\ HeaderValues(lastRes, "Access-Control-Allow-Origin") = {"*"}

(* C4: the process has exited through the shutdown path only with status  *)
(* 0, after a SIGTERM, with the server no longer accepting, no connection *)
(* open and the close callback run.                                       *)
C4_CloseBeforeExit ==
  exitVia = "shutdown" =>
    /\ exitCode = 0
    /\ sigterms > 0
    /\ ~handle
    /\ connections = {}
    /\ "Server closed" \in out

C4_Witness ==
  /\ exitVia = "shutdown"
  /\ sigterms > 1
  /\ Served

(* C5 as stated: once a SIGTERM has been received, the process exits with *)
(* status 0.                                                              *)
C5_ExitsZero == (sigterms > 0 /\ ~Running) => exitCode = 0

(* C5 amended: after a SIGTERM no connection is accepted any more; in     *)
(* normal mode the process exits only when no connection is open, and it  *)
(* eventually exits with status 0; in self-test mode it eventually exits  *)
(* with status 0 or 1.                                                    *)
C5_Shutdown ==
  /\ [][sigterms > 0 => connections' \subseteq connections]_vars
  /\ [](mode = "normal" /\ ~Running => connections = {} /\ exitCode = 0)
  /\ (mode = "normal" /\ sigterms > 0) ~> (exitCode = 0)
  /\ (sigterms > 0) ~> (exitCode \in {0, 1})

C5_Witness ==
  /\ mode = "normal"
  /\ sigterms > 1
  /\ Served
  /\ exitCode = 0

C6_HealthOk ==
  /\ clientRes.body.type = "json"
  /\ clientRes.status = 200
  /\ "status" \in DOMAIN clientRes.body.obj
  /\ clientRes.body.obj.status = Str("healthy")
  /\ "timestamp" \in DOMAIN clientRes.body.obj
  /\ clientRes.body.obj.timestamp = Str("iso")
  /\ "uptime" \in DOMAIN clientRes.body.obj
  /\ clientRes.body.obj.uptime.t = "num"

C6_InfoOk ==
  /\ clientRes.body.type = "json"
  /\ clientRes.status = 200
  /\ "platform" \in DOMAIN clientRes.body.obj
  /\ clientRes.body.obj.platform = Str("linux")

(* C6: the self-test exits 0 exactly when the /info assertions pass after *)
(* the math and /health assertions passed; a failed assertion exits 1 at  *)
(* its own stage, with the message of that stage printed and no later     *)
(* stage started.                                                         *)
C6_SelfTestExit ==
  /\ (exitVia = "test" /\ exitCode = 0) =>
       /\ req.info = "ended" /\ C6_InfoOk
       /\ {"Math test passed", "Health endpoint test passed",
           "Info endpoint test passed", "All tests passed"} \subseteq out
  /\ (req.info = "ended") =>
       /\ ~Running
       /\ exitCode = (IF C6_InfoOk THEN 0 ELSE 1)
       /\ ~C6_InfoOk => "Info endpoint test failed" \in out /\ "All tests passed" \notin out
  /\ (req.health = "ended" /\ req.info = "none") =>
       /\ exitCode = 1 /\ ~C6_HealthOk
       /\ "Health endpoint test failed" \in out
       /\ out \cap {"Info endpoint test passed", "Info endpoint test failed",
                    "All tests passed"} = {}
  /\ (req.health = "ended" /\ req.info = "inflight") => C6_HealthOk
  /\ (req.info # "none") =>
       /\ "Health endpoint test passed" \in out
       /\ "Health endpoint test failed" \notin out
  /\ "Math test failed" \in out => exitCode = 1 /\ ~handle /\ pc = "start"
  /\ exitVia = "test" => exitCode \in {0, 1}

C6_Witness ==
  /\ exitVia = "test"
  /\ exitCode = 1
  /\ req.info = "ended"
  /\ "Info endpoint test failed" \in out

(* C7: once the GET to /health or the GET to /info has failed, the        *)
(* process has exited with a non-zero status, an error was printed, and   *)
(* success was not reported.                                              *)
C7_NetworkFailure ==
  netFailure # {} =>
    /\ ~Running
    /\ exitCode # 0
    /\ out \cap {"HTTP request failed", "Uncaught error"} # {}
    /\ "All tests passed" \notin out
    /\ "health" \in netFailure => req.info = "none"
    /\ "info" \in netFailure => "Info endpoint test passed" \notin out

C7_Witness ==
  /\ "info" \in netFailure
  /\ exitCode = 1

(* C8: the GET to /info exists only after the server is listening, the    *)
(* /health response has ended and its assertions passed; the two requests *)
(* are never both in flight; the server is started after the math test.   *)
C8_Sequential ==
  /\ req.health # "none" => pc = "testing"
  /\ req.info # "none" =>
       /\ req.health = "ended"
       /\ "Health endpoint test passed" \in out
  /\ ~(req.health \in {"inflight", "responded"} /\ req.info \in {"inflight", "responded"})
  /\ (mode = "test" /\ pc # "start") => "Math test passed" \in out

C8_Witness ==
  /\ req.info = "inflight"
  /\ SelfConn \in connections

(* C9: with no SIGTERM the self-test always terminates, with status 0 or  *)
(* 1, from every state of the callback chain.                             *)
C9_Terminates == (mode = "test") ~> (exitCode \in {0, 1})

C9_Witness ==
  /\ mode = "test"
  /\ req.info = "error"
  /\ exitCode = 1

IsQueryStart(u, n) ==
  /\ u[n] = "?"
  /\ \A j \in 1..(n - 1) : u[j] \notin {"?", "#"}

(* C10: a URL with a query string is answered like the URL without it,    *)
(* the 404 message names the pathname without the query string, and       *)
(* "/health/" and "/Health" are answered 404.                             *)
C10_PathnameOnly ==
  Served =>
    /\ \A n \in 1..Len(lastReq.url) :
         IsQueryStart(lastReq.url, n) =>
           /\ lastRes = Handler(lastReq.method, SubSeq(lastReq.url, 1, n - 1)).sent
           /\ lastRes.status = 404 =>
                JsonGet(lastRes.body.obj, "message").v =
                  <<"Route ">> \o SubSeq(lastReq.url, 1, n - 1) \o <<" not found">>
    /\ lastReq.url = <<"/", "health", "?">> => lastRes.status = 200
    /\ lastReq.url \in {<<"/", "health", "/">>, <<"/", "Health">>} => lastRes.status = 404

C10_Witness ==
  /\ lastReq.url = <<"/", "health", "?">>
  /\ lastRes.status = 200
====
